---- MODULE Spec2Model ----
(***************************************************************************)
(* GoMonitor, interactive process manager (application/pck/ui).            *)
(*                                                                         *)
(* The model follows InteractiveTUI.Run: the controller goroutine that     *)
(* owns the InteractiveTUI struct, the captureKeys goroutine that reads    *)
(* standard input and publishes bytes on keyChan, the terminal whose       *)
(* local flags setRawMode changes and restoreTerminal puts back, and the   *)
(* environment (the user at the keyboard, the operating system's signals,  *)
(* the process snapshot provider, the kill system call).                   *)
(*                                                                         *)
(* Indices are 0-based as in the Go code; the TLA+ sequence element of     *)
(* slice index i is s[i + 1].                                              *)
(***************************************************************************)
EXTENDS Integers, Sequences, FiniteSets, TLC

VARIABLES
    pc,            \* position of the main goroutine (showInteractiveTUI, Run)
    tui,           \* the InteractiveTUI struct
    term,          \* local-mode flags of the terminal on standard input
    oldState,      \* the *Termios returned by setRawMode (nil before)
    cursorHidden,  \* TRUE after hideCursor, FALSE after showCursor
    sigChan,       \* buffered channel of OS signals (capacity 1)
    keyChan,       \* buffered channel of key bytes (capacity 10)
    cpc,           \* position of the captureKeys goroutine
    pending,       \* byte the capture goroutine is blocked sending
    readBuf,       \* buf[:n] of the capture goroutine's latest read
    capAccess,     \* fields of the struct the capture goroutine accessed
    user,          \* who is at the keyboard (fixed for a session)
    out,           \* input/output of the controller's latest handling
    sent,          \* kill(2) requests issued by that handling
    keysBeforeSig, \* keys on keyChan published before the signal on sigChan
    table,         \* the one-shot process table command (sort, print)
    disk           \* package disk: the filter lists and the latest answer

vars == <<pc, tui, term, oldState, cursorHidden, sigChan, keyChan, cpc,
          pending, readBuf, capAccess, user, out, sent, keysBeforeSig,
          table, disk>>

\* The variables of the interactive session.
tuiVars == <<pc, tui, term, oldState, cursorHidden, sigChan, keyChan, cpc,
             pending, readBuf, capAccess, user, out, sent, keysBeforeSig>>

----------------------------------------------------------------------------
(* Bounds of the environment.                                              *)

\* Number of processes of the long snapshots (more than maxLines, so that
\* the table scrolls) and of the short ones.
MaxProcs == 22
SmallProcs == 3

\* Longest process list given to the one-shot table commands.
MaxTableLen == 4

\* Number of calls of AddIgnoredPrefix in a run.
MaxAddedPrefixes == 1

----------------------------------------------------------------------------
(* Program constants.                                                      *)

maxLines == 20
KeyChanCap == 10
SigChanCap == 1
BufLen == 6

KeyESC == 27
KeyLBracket == 91
KeyUp == 65
KeyDown == 66
KeyRight == 67
KeyLeft == 68
KeyDEL == 127
Key_q == 113
Key_Q == 81
Key_r == 114
Key_R == 82
Key_c == 99
Key_C == 67
Key_m == 109
Key_M == 77
Key_p == 112
Key_P == 80
Key_d == 100
Key_D == 68
Key_1 == 49
Key_5 == 53
KeyTilde == 126

SIGINT == 2
SIGKILL == 9
SIGTERM == 15

SortByCPU == 0
SortByRAM == 1
SortByPID == 2

\* The local-mode flags setRawMode clears.
RawCleared == {"ICANON", "ECHO", "ISIG"}

----------------------------------------------------------------------------
(* The process snapshot provider (common.CollectAllProcessInfo).           *)

\* Process i (1-based position in the snapshot) of an n-process snapshot.
\* Variant 1 lists the pids ascending and has two processes of equal CPU;
\* variant 2 lists the pids descending and has two processes of equal RAM.
ProcessInfo(i, n, v) ==
    IF v = 1
    THEN [PID |-> 100 + i,
          CPUPercentage |-> IF i = 2 THEN 1 ELSE i,
          RAMPercentage |-> (5 * i) % 29]
    ELSE [PID |-> 200 - i,
          CPUPercentage |-> (7 * i) % 23,
          RAMPercentage |-> IF i <= 2 THEN 4 ELSE i]

Snapshot(n, v) == [i \in 1..n |-> ProcessInfo(i, n, v)]

\* The users of the model. The operator types every key, on a machine with
\* few processes; the browser navigates, refreshes and sorts a long list;
\* the others lean on one key (auto-repeat) faster than the controller
\* takes the keys.
Users == {"operator", "browser", "lean_x", "lean_down", "lean_q"}

Snapshots(u) ==
    CASE u = "operator" ->
            {Snapshot(n, v) : n \in {0, 2, SmallProcs}, v \in 1..2}
      [] u = "browser" ->
            {Snapshot(0, 1), Snapshot(2, 1), Snapshot(MaxProcs, 1)}
      [] u \in {"lean_x", "lean_q"} ->
            {Snapshot(0, 1), Snapshot(2, 1)}
      [] OTHER ->
            {Snapshot(SmallProcs, 1), Snapshot(MaxProcs, 1)}

\* What CollectAllProcessInfo may return: an error, or a list.
CollectAllProcessInfo(u) ==
    {[err |-> TRUE, list |-> <<>>]}
        \cup {[err |-> FALSE, list |-> l] : l \in Snapshots(u)}

\* The answer of a call that is not made.
NotFetched == [err |-> TRUE, list |-> <<>>]

----------------------------------------------------------------------------
(* sort.Slice with the comparators of sortProcesses.                       *)

less(mode, a, b) ==
    CASE mode = SortByCPU -> a.CPUPercentage > b.CPUPercentage
      [] mode = SortByRAM -> a.RAMPercentage > b.RAMPercentage
      [] mode = SortByPID -> a.PID < b.PID
      [] OTHER -> FALSE

\* One inner loop of insertion sort: s[j] moves left while less than its
\* left neighbour (j is a 1-based position).
RECURSIVE sinkLeft(_, _, _)
sinkLeft(s, j, mode) ==
    IF j > 1 /\ less(mode, s[j], s[j - 1])
    THEN sinkLeft([s EXCEPT ![j] = s[j - 1], ![j - 1] = s[j]], j - 1, mode)
    ELSE s

RECURSIVE insertionSortFrom(_, _, _)
insertionSortFrom(s, i, mode) ==
    IF i > Len(s) THEN s
    ELSE insertionSortFrom(sinkLeft(s, i, mode), i + 1, mode)

insertionSort(s, mode) == insertionSortFrom(s, 2, mode)

\* Every arrangement of the elements at positions rem of s in which no
\* element is less than one before it.
RECURSIVE orderedArrangements(_, _, _)
orderedArrangements(s, rem, mode) ==
    IF rem = {} THEN {<<>>}
    ELSE LET first == {i \in rem : \A j \in rem : ~less(mode, s[j], s[i])}
         IN  UNION {{<<s[i]>> \o t :
                        t \in orderedArrangements(s, rem \ {i}, mode)} :
                    i \in first}

\* The pass a build with Go 1.16 to 1.18 makes over a slice of at most 12
\* elements before its insertion sort (quickSort_func): for i from 6 on,
\* elements i and i - 6 are swapped when element i is less (i is a 0-based
\* index).
RECURSIVE gapPassFrom(_, _, _)
gapPassFrom(s, i, mode) ==
    IF i >= Len(s) THEN s
    ELSE gapPassFrom(IF less(mode, s[i + 1], s[i - 5])
                     THEN [s EXCEPT ![i + 1] = s[i - 5], ![i - 5] = s[i + 1]]
                     ELSE s,
                     i + 1, mode)

\* sort.Slice. The repository names no toolchain beyond "Go 1.16+", so the
\* outcomes are those of every such build. Up to 12 elements: insertion
\* sort (Go 1.19 on), or the gap pass followed by insertion sort (Go 1.16
\* to 1.18); the two agree up to 6 elements. For longer slices the order
\* of equal elements is unspecified, so every ordered arrangement is a
\* possible outcome.
sortSlice(s, mode) ==
    IF Len(s) <= 12
    THEN {insertionSort(s, mode),
          insertionSort(gapPassFrom(s, 6, mode), mode)}
    ELSE orderedArrangements(s, 1..Len(s), mode)

\* sortSlice, tabulated over the snapshots of the model.
sortSliceTable ==
    [mode \in {SortByCPU, SortByRAM, SortByPID} |->
        [s \in UNION {Snapshots(u) : u \in Users} |-> sortSlice(s, mode)]]

sortProcesses(t, processes) == sortSliceTable[t.sortMode][processes]

----------------------------------------------------------------------------
(* The controller's handlers, as functions of the struct and the           *)
(* environment's answers. Each returns the set of possible results.        *)

NewInteractiveTUI ==
    [processes |-> <<>>, selectedIndex |-> 0, scrollOffset |-> 0,
     sortMode |-> SortByCPU, running |-> TRUE, width |-> 120, height |-> 30]

\* Mutant: the index is not brought back into the new list.
clampSelected_NoClamp(t) == t

\* Mutant: a refresh puts the selection back on the first row.
clampSelected_Reset(t) == [t EXCEPT !.selectedIndex = 0]

clampSelected(t) ==
    LET a == IF t.selectedIndex >= Len(t.processes)
             THEN [t EXCEPT !.selectedIndex = Len(t.processes) - 1]
             ELSE t
    IN  IF a.selectedIndex < 0 THEN [a EXCEPT !.selectedIndex = 0] ELSE a

\* Mutant: a failed fetch empties the list.
updateProcesses_DropOnError(t, fetch) ==
    IF fetch.err THEN {[t EXCEPT !.processes = <<>>, !.selectedIndex = 0]}
    ELSE {clampSelected([t EXCEPT !.processes = s]) :
              s \in sortProcesses(t, fetch.list)}

\* updateProcesses: fetch is the provider's answer.
updateProcesses(t, fetch) ==
    IF fetch.err THEN {t}
    ELSE {clampSelected([t EXCEPT !.processes = s]) :
              s \in sortProcesses(t, fetch.list)}

\* Mutant: the window slides down one row short.
renderProcessList_OffByOne(t) ==
    LET a == IF t.selectedIndex < t.scrollOffset
             THEN [t EXCEPT !.scrollOffset = t.selectedIndex]
             ELSE t
    IN  IF a.selectedIndex >= a.scrollOffset + maxLines
        THEN [a EXCEPT !.scrollOffset = a.selectedIndex - maxLines]
        ELSE a

\* Mutant: a selection below the window becomes the first row shown.
renderProcessList_PageJump(t) ==
    LET a == IF t.selectedIndex < t.scrollOffset
             THEN [t EXCEPT !.scrollOffset = t.selectedIndex]
             ELSE t
    IN  IF a.selectedIndex >= a.scrollOffset + maxLines
        THEN [a EXCEPT !.scrollOffset = a.selectedIndex]
        ELSE a

\* Mutant: the window moves one row towards the selection at each render.
renderProcessList_Creeps(t) ==
    LET a == IF t.selectedIndex < t.scrollOffset
             THEN [t EXCEPT !.scrollOffset = t.selectedIndex]
             ELSE t
    IN  IF a.selectedIndex >= a.scrollOffset + maxLines
        THEN [a EXCEPT !.scrollOffset = a.selectedIndex - maxLines + 1]
        ELSE IF a.selectedIndex > a.scrollOffset
             THEN [a EXCEPT !.scrollOffset = a.scrollOffset + 1]
             ELSE a

renderProcessList(t) ==
    LET a == IF t.selectedIndex < t.scrollOffset
             THEN [t EXCEPT !.scrollOffset = t.selectedIndex]
             ELSE t
    IN  IF a.selectedIndex >= a.scrollOffset + maxLines
        THEN [a EXCEPT !.scrollOffset = a.selectedIndex - maxLines + 1]
        ELSE a

render(t) == renderProcessList(t)

\* The process rows the printing loop of renderProcessList writes, from
\* loop counter i on, t being the struct after the adjustment of
\* scrollOffset: the slice index read and whether the row is highlighted.
RECURSIVE processRowsFrom(_, _)
processRowsFrom(t, i) ==
    IF i < maxLines /\ i + t.scrollOffset < Len(t.processes)
    THEN <<[index |-> i + t.scrollOffset,
            isSelected |-> (i + t.scrollOffset = t.selectedIndex)]>>
            \o processRowsFrom(t, i + 1)
    ELSE <<>>

processRows(t) == processRowsFrom(t, 0)

\* Mutant: empty lines are written for an empty list only.
blankLines_OnlyWhenEmpty(t) ==
    IF Len(t.processes) = 0 THEN maxLines ELSE 0

\* The number of empty lines the filling loop writes after the rows.
blankLines(t) ==
    LET visibleCount ==
            IF Len(t.processes) - t.scrollOffset < maxLines
            THEN Len(t.processes) - t.scrollOffset
            ELSE maxLines
    IN  IF visibleCount < maxLines THEN maxLines - visibleCount ELSE 0

fetchTag(fetch) == IF fetch.err THEN "err" ELSE "ok"

\* Mutant: SIGKILL follows SIGTERM whether or not SIGTERM failed.
killSelectedProcess_AlwaysForce(t, termErr, killErr) ==
    IF t.selectedIndex < 0 \/ t.selectedIndex >= Len(t.processes)
    THEN {[tui |-> t, sent |-> <<>>, next |-> "render"]}
    ELSE LET pid == t.processes[t.selectedIndex + 1].PID
         IN  {[tui |-> t,
               sent |-> <<[pid |-> pid, sig |-> SIGTERM, err |-> termErr],
                          [pid |-> pid, sig |-> SIGKILL, err |-> killErr]>>,
               next |-> "sleep"]}

\* killSelectedProcess, up to its time.Sleep: termErr and killErr tell
\* whether kill(pid, SIGTERM) and kill(pid, SIGKILL) fail. With no row
\* selected it returns at once and handleKey goes on to render; otherwise
\* the controller sleeps, then calls updateProcesses.
killSelectedProcess(t, termErr, killErr) ==
    IF t.selectedIndex < 0 \/ t.selectedIndex >= Len(t.processes)
    THEN {[tui |-> t, sent |-> <<>>, next |-> "render"]}
    ELSE LET pid == t.processes[t.selectedIndex + 1].PID
             s1 == <<[pid |-> pid, sig |-> SIGTERM, err |-> termErr]>>
             s2 == IF termErr
                   THEN <<[pid |-> pid, sig |-> SIGKILL, err |-> killErr]>>
                   ELSE <<>>
         IN  {[tui |-> t, sent |-> s1 \o s2, next |-> "sleep"]}

QuitKeys == {Key_q, Key_Q, KeyESC}
RefreshKeys == {Key_r, Key_R}
KillKeys == {KeyDEL, Key_d, Key_D}
SortKeys == {Key_c, Key_C, Key_m, Key_M, Key_p, Key_P}

sortModeOf(key) ==
    IF key \in {Key_c, Key_C} THEN SortByCPU
    ELSE IF key \in {Key_m, Key_M} THEN SortByRAM
    ELSE SortByPID

\* The arms of handleKey, each up to its first call that waits on the
\* operating system (the sleep after a kill, the snapshot fetch of
\* updateProcesses, the writes of render). The results are records of the
\* struct at that point, the kill requests issued, and the call the
\* controller makes next: "sleep", "fetch" (updateProcesses, then render),
\* "render", or "loop" when the handler has returned.
\* Mutant: quitting puts the selection back on the first row.
handleQuit_ResetsView(t) ==
    {[tui |-> [t EXCEPT !.running = FALSE, !.selectedIndex = 0,
                        !.scrollOffset = 0],
      sent |-> <<>>, next |-> "loop"]}

handleQuit(t) ==
    {[tui |-> [t EXCEPT !.running = FALSE], sent |-> <<>>, next |-> "loop"]}

handleUp(t) ==
    LET a == IF t.selectedIndex > 0
             THEN [t EXCEPT !.selectedIndex = t.selectedIndex - 1]
             ELSE t
    IN  {[tui |-> a, sent |-> <<>>, next |-> "render"]}

\* Mutant: DOWN on the last row wraps to the first.
handleDown_Wraps(t) ==
    LET a == IF t.selectedIndex < Len(t.processes) - 1
             THEN [t EXCEPT !.selectedIndex = t.selectedIndex + 1]
             ELSE [t EXCEPT !.selectedIndex = 0]
    IN  {[tui |-> a, sent |-> <<>>, next |-> "render"]}

handleDown(t) ==
    LET a == IF t.selectedIndex < Len(t.processes) - 1
             THEN [t EXCEPT !.selectedIndex = t.selectedIndex + 1]
             ELSE t
    IN  {[tui |-> a, sent |-> <<>>, next |-> "render"]}

\* Mutant: a refresh asks the selected process to terminate again.
handleRefresh_Retries(t) == killSelectedProcess(t, FALSE, FALSE)

handleRefresh(t) == {[tui |-> t, sent |-> <<>>, next |-> "fetch"]}

handleSort(t, mode) ==
    {[tui |-> [t EXCEPT !.sortMode = mode], sent |-> <<>>, next |-> "fetch"]}

handleKill(t, termErr, killErr) == killSelectedProcess(t, termErr, killErr)

\* Mutant: a key without a command redraws the screen.
handleOther_Renders(t) == {[tui |-> t, sent |-> <<>>, next |-> "render"]}

handleOther(t) == {[tui |-> t, sent |-> <<>>, next |-> "loop"]}

handleKey(t, key, termErr, killErr) ==
    CASE key \in QuitKeys -> handleQuit(t)
      [] key = KeyUp -> handleUp(t)
      [] key = KeyDown -> handleDown(t)
      [] key \in RefreshKeys -> handleRefresh(t)
      [] key \in SortKeys -> handleSort(t, sortModeOf(key))
      [] key \in KillKeys -> handleKill(t, termErr, killErr)
      [] OTHER -> handleOther(t)

----------------------------------------------------------------------------
(* The terminal mode guard.                                                *)

\* Mutant: raw mode also gives up extended input processing.
setRawMode_AlsoIEXTEN(lflag) == lflag \ (RawCleared \cup {"IEXTEN"})

\* The flags setRawMode applies, given the flags it read.
setRawMode(lflag) == lflag \ RawCleared

\* A *Termios: nil, or a pointer to captured flags.
NilState == [nil |-> TRUE, lflag |-> {}]
StateOf(lflag) == [nil |-> FALSE, lflag |-> lflag]

\* Mutant: the captured flags are not written back.
restoreTerminal_Skip(old, cur) == cur

\* The flags of the terminal after restoreTerminal(old), cur being the
\* flags before the call.
restoreTerminal(old, cur) == IF ~old.nil THEN old.lflag ELSE cur

----------------------------------------------------------------------------
(* captureKeys: the byte published for one read of n bytes into buf.       *)

\* Mutant: the function-key sequence is not recognised.
decodeKey_NoF5(buf, n) ==
    IF buf[1] = KeyESC /\ n >= 3
    THEN IF buf[2] = KeyLBracket THEN buf[3] ELSE buf[1]
    ELSE buf[1]

decodeKey(buf, n) ==
    IF buf[1] = KeyESC /\ n >= 3
    THEN IF n >= 5 /\ buf[2] = KeyLBracket /\ buf[3] = Key_1
                   /\ buf[4] = Key_5 /\ buf[5] = KeyTilde
         THEN Key_r
         ELSE IF buf[2] = KeyLBracket THEN buf[3] ELSE buf[1]
    ELSE buf[1]

\* What one read of standard input can return while the operator types:
\* single keys, escape sequences of arrow and function keys, and two keys
\* typed so fast that one read returns both.
ChunkF1 == <<KeyESC, 79, 80>>    \* ESC O P
ChunkX == <<120>>                \* x, a key without a command
ChunkCtrlC == <<3>>              \* Ctrl+C, delivered as a byte in raw mode
ChunkJK == <<106, 107>>          \* j and k in one read

OperatorChunks ==
    {<<Key_q>>, <<Key_Q>>, <<KeyESC>>,
     <<KeyESC, KeyLBracket, KeyUp>>, <<KeyESC, KeyLBracket, KeyDown>>,
     <<KeyESC, KeyLBracket, KeyRight>>, <<KeyESC, KeyLBracket, KeyLeft>>,
     <<KeyESC, KeyLBracket, Key_1, Key_5, KeyTilde>>,
     ChunkF1, <<KeyESC, KeyLBracket>>,
     <<Key_r>>, <<Key_R>>, <<Key_c>>, <<Key_m>>, <<Key_p>>,
     <<KeyDEL>>, <<Key_d>>, ChunkX, ChunkCtrlC, <<KeyUp>>, ChunkJK}

BrowserChunks ==
    {<<Key_q>>, <<KeyESC>>,
     <<KeyESC, KeyLBracket, KeyUp>>, <<KeyESC, KeyLBracket, KeyDown>>,
     <<KeyESC, KeyLBracket, Key_1, Key_5, KeyTilde>>,
     <<Key_r>>, <<Key_c>>, <<Key_m>>, <<Key_p>>, ChunkX}

\* Bytes left in buf beyond the n bytes of the current read.
StaleBytes == {0, KeyLBracket}

\* buf after a read of chunk: the chunk, then stale bytes.
bufAfterRead(chunk, stale) ==
    [i \in 1..BufLen |-> IF i <= Len(chunk) THEN chunk[i] ELSE stale]

----------------------------------------------------------------------------
(* The one-shot process tables: common.SortProcessesByField,               *)
(* pck.GetProcessAssociationSorted, common.PrintProcessTable.              *)

\* The processes of the lists the table commands are given. Names are
\* strings of bytes. Every field has values shared by two processes.
TableProcs ==
    {[PID |-> 7, Name |-> <<98, 97>>, CPUPercentage |-> 2, RAMPercentage |-> 1],
     [PID |-> 8, Name |-> <<98>>, CPUPercentage |-> 2, RAMPercentage |-> 0],
     [PID |-> 9, Name |-> <<98, 97>>, CPUPercentage |-> 0, RAMPercentage |-> 1],
     [PID |-> 7, Name |-> <<97, 122>>, CPUPercentage |-> 5, RAMPercentage |-> 3]}

TableInputs ==
    UNION {[1..n -> TableProcs] : n \in 0..MaxTableLen}

\* The field names a caller may pass, "user" being none the function
\* knows.
TableFields == {"cpu", "ram", "pid", "name", "user"}

\* Go's < on strings: lexicographic order of the bytes.
RECURSIVE strLess(_, _)
strLess(a, b) ==
    IF b = <<>> THEN FALSE
    ELSE IF a = <<>> THEN TRUE
    ELSE IF a[1] # b[1] THEN a[1] < b[1]
    ELSE strLess(Tail(a), Tail(b))

\* shouldSwap of SortProcessesByField for processes[j] = pj and
\* processes[selectedIdx] = ps.
shouldSwap(field, descending, pj, ps) ==
    CASE field = "cpu" ->
            IF descending THEN pj.CPUPercentage > ps.CPUPercentage
            ELSE pj.CPUPercentage < ps.CPUPercentage
      [] field = "ram" ->
            IF descending THEN pj.RAMPercentage > ps.RAMPercentage
            ELSE pj.RAMPercentage < ps.RAMPercentage
      [] field = "pid" ->
            IF descending THEN pj.PID > ps.PID ELSE pj.PID < ps.PID
      [] field = "name" ->
            IF descending THEN strLess(ps.Name, pj.Name)
            ELSE strLess(pj.Name, ps.Name)
      [] OTHER -> FALSE

\* The inner loop of the selection sort, from position j on (1-based).
RECURSIVE selectFrom(_, _, _, _, _)
selectFrom(s, field, descending, j, selectedIdx) ==
    IF j > Len(s) THEN selectedIdx
    ELSE selectFrom(s, field, descending, j + 1,
                    IF shouldSwap(field, descending, s[j], s[selectedIdx])
                    THEN j ELSE selectedIdx)

\* The outer loop, from position i on (1-based; i runs to n - 1).
RECURSIVE selectionSortFrom(_, _, _, _)
selectionSortFrom(s, field, descending, i) ==
    IF i >= Len(s) THEN s
    ELSE LET sel == selectFrom(s, field, descending, i + 1, i)
             t == IF sel # i
                  THEN [s EXCEPT ![i] = s[sel], ![sel] = s[i]]
                  ELSE s
         IN  selectionSortFrom(t, field, descending, i + 1)

\* Mutant: the outer loop stops one position early.
SortProcessesByField_StopsEarly(processes, field, descending) ==
    IF Len(processes) <= 2 THEN processes
    ELSE selectionSortFrom(SubSeq(processes, 1, Len(processes) - 1),
                           field, descending, 1)
            \o <<processes[Len(processes)]>>

SortProcessesByField(processes, field, descending) ==
    IF Len(processes) <= 1 THEN processes
    ELSE selectionSortFrom(processes, field, descending, 1)

\* GetProcessAssociationSorted, fetch being the provider's answer.
GetProcessAssociationSorted(fetch) ==
    IF fetch.err THEN [err |-> TRUE, list |-> <<>>]
    ELSE [err |-> FALSE,
          list |-> SortProcessesByField(fetch.list, "cpu", TRUE)]

\* The rows PrintProcessTable prints.
PrintProcessTable(processes, maxProcesses) ==
    IF maxProcesses > 0 /\ maxProcesses < Len(processes)
    THEN SubSeq(processes, 1, maxProcesses)
    ELSE processes

\* No table command has run.
NoTable == [op |-> "none", input |-> <<>>, field |-> "", descending |-> FALSE,
            n |-> 0, result |-> <<>>]

----------------------------------------------------------------------------
(* Package disk: the filters of real disks. Paths are strings of           *)
(* characters.                                                             *)

ignoredFsTypes ==
    {"tmpfs", "devtmpfs", "sysfs", "proc", "devpts", "securityfs", "cgroup",
     "cgroup2", "pstore", "efivarfs", "bpf", "autofs", "mqueue", "hugetlbfs",
     "debugfs", "tracefs", "configfs", "fusectl", "squashfs"}

ignoredPrefixes ==
    <<<<"/", "s", "y", "s">>,
      <<"/", "p", "r", "o", "c">>,
      <<"/", "d", "e", "v">>,
      <<"/", "r", "u", "n", "/", "s", "n", "a", "p", "d">>,
      <<"/", "r", "u", "n", "/", "l", "o", "c", "k">>,
      <<"/", "r", "u", "n", "/", "u", "s", "e", "r">>,
      <<"/", "s", "n", "a", "p">>,
      <<"/", "b", "o", "o", "t", "/", "e", "f", "i">>,
      <<"/", "v", "a", "r", "/", "s", "n", "a", "p">>>>

\* The package-level variables at program start, and no answer yet.
DefaultFilters ==
    [ignoredFsTypes |-> ignoredFsTypes, ignoredPrefixes |-> ignoredPrefixes,
     asked |-> FALSE, mountpoint |-> <<>>, fstype |-> "", real |-> FALSE]

\* strings.HasPrefix
HasPrefix(str, prefix) ==
    Len(prefix) <= Len(str) /\ SubSeq(str, 1, Len(prefix)) = prefix

IsRealDisk(filters, mountpoint, fstype) ==
    IF fstype \in filters.ignoredFsTypes THEN FALSE
    ELSE \A i \in 1..Len(filters.ignoredPrefixes) :
             ~HasPrefix(mountpoint, filters.ignoredPrefixes[i])

AddIgnoredFsType(filters, fstype) ==
    [filters EXCEPT !.ignoredFsTypes = @ \cup {fstype}]

RemoveIgnoredFsType(filters, fstype) ==
    [filters EXCEPT !.ignoredFsTypes = @ \ {fstype}]

AddIgnoredPrefix(filters, prefix) ==
    [filters EXCEPT !.ignoredPrefixes = Append(@, prefix)]

\* The arguments the callers of the model pass.
FsTypes == {"ext4", "zfs", "tmpfs", "squashfs"}

Mountpoints ==
    {<<"/">>,
     <<"/", "h", "o", "m", "e">>,
     <<"/", "d", "e", "v">>,
     <<"/", "d", "e", "v", "/", "s", "h", "m">>,
     <<"/", "d", "e", "v", "e", "l">>,
     <<"/", "s", "n", "a", "p", "/", "c", "o", "r", "e">>,
     <<"/", "s", "n", "a", "p", "s", "h", "o", "t", "s">>,
     <<"/", "m", "n", "t", "/", "t", "e", "m", "p", "/", "a">>,
     <<"/", "m", "n", "t", "/", "t", "e", "m", "p", "o", "r", "a", "r", "y">>}

AddedPrefixes == {<<"/", "m", "n", "t", "/", "t", "e", "m", "p">>}

----------------------------------------------------------------------------
(* Initial state: the process has called NewInteractiveTUI and is about to *)
(* call Run on a terminal in one of the configurations of InitTerms.       *)

InitTerms == {{"ICANON", "ECHO", "ISIG", "IEXTEN"}, {"ICANON", "ISIG"}}

NoIO == [op |-> "none", fetch |-> "none", rendered |-> FALSE]

Init ==
    /\ pc = "start"
    /\ tui = NewInteractiveTUI
    /\ term \in InitTerms
    /\ oldState = NilState
    /\ cursorHidden = FALSE
    /\ sigChan = <<>>
    /\ keyChan = <<>>
    /\ cpc = "off"
    /\ pending = 0
    /\ readBuf = <<>>
    /\ capAccess = {}
    /\ user \in Users
    /\ out = NoIO
    /\ sent = <<>>
    /\ keysBeforeSig = 0
    /\ table = NoTable
    /\ disk = DefaultFilters

----------------------------------------------------------------------------
(* showInteractiveTUI and Run, up to the main loop.                        *)

\* showInteractiveTUI: Stat of standard input fails, or standard input is
\* not a character device; the function prints guidance and returns
\* without constructing the interface.
StdinRefused ==
    /\ pc = "start"
    /\ pc' = "refused"
    /\ UNCHANGED <<tui, term, oldState, cursorHidden, sigChan, keyChan, cpc,
                   pending, readBuf, capAccess, user, out, sent,
                   keysBeforeSig,
                   table, disk>>

\* Mutant: the failed TCSETS has cleared the flags all the same.
RunFail_HalfRaw ==
    /\ pc = "start"
    /\ pc' = "failed"
    /\ term' = setRawMode(term)
    /\ UNCHANGED <<tui, oldState, cursorHidden, sigChan, keyChan, cpc,
                   pending, readBuf, capAccess, user, out, sent,
                   keysBeforeSig,
                   table, disk>>

\* setRawMode fails (either ioctl): Run returns the error.
RunFail ==
    /\ pc = "start"
    /\ pc' = "failed"
    /\ UNCHANGED <<tui, term, oldState, cursorHidden, sigChan, keyChan, cpc,
                   pending, readBuf, capAccess, user, out, sent,
                   keysBeforeSig,
                   table, disk>>

\* setRawMode succeeds: the terminal is in raw mode and restoreTerminal
\* is deferred on the configuration captured.
RunStart ==
    /\ pc = "start"
    /\ oldState' = StateOf(term)
    /\ term' = setRawMode(term)
    /\ pc' = "raw"
    /\ UNCHANGED <<tui, cursorHidden, sigChan, keyChan, cpc, pending,
                   readBuf, capAccess, user, out, sent, keysBeforeSig, table,
                   disk>>

\* The hide-cursor sequence is written and showCursor is deferred.
HideCursor ==
    /\ pc = "raw"
    /\ cursorHidden' = TRUE
    /\ pc' = "hidden"
    /\ UNCHANGED <<tui, term, oldState, sigChan, keyChan, cpc, pending,
                   readBuf, capAccess, user, out, sent, keysBeforeSig, table,
                   disk>>

\* sigChan is made and registered for SIGINT and SIGTERM.
SignalNotify ==
    /\ pc = "hidden"
    /\ pc' = "notified"
    /\ UNCHANGED <<tui, term, oldState, cursorHidden, sigChan, keyChan, cpc,
                   pending, readBuf, capAccess, user, out, sent,
                   keysBeforeSig, table, disk>>

\* keyChan is made and the capture goroutine started; the controller goes
\* on to the first updateProcesses.
GoCaptureKeys ==
    /\ pc = "notified"
    /\ cpc' = "read"
    /\ pc' = "fetch"
    /\ UNCHANGED <<tui, term, oldState, cursorHidden, sigChan, keyChan,
                   pending, readBuf, capAccess, user, out, sent,
                   keysBeforeSig, table, disk>>

\* The positions of the controller at which the capture goroutine runs
\* beside it: in the select of the main loop ("loop"), in the sleep of
\* killSelectedProcess ("sleep"), in the snapshot fetch of updateProcesses
\* ("fetch"), about to render ("render").
Running == {"loop", "sleep", "fetch", "render"}

----------------------------------------------------------------------------
(* The calls of the controller that wait on the operating system: the     *)
(* first update and render of Run, and those of the key handlers.          *)

\* time.Sleep of killSelectedProcess ends; updateProcesses is called.
KillSleep ==
    /\ pc = "sleep"
    /\ pc' = "fetch"
    /\ UNCHANGED <<tui, term, oldState, cursorHidden, sigChan, keyChan, cpc,
                   pending, readBuf, capAccess, user, out, sent,
                   keysBeforeSig, table, disk>>

\* updateProcesses: CollectAllProcessInfo answers; on success the list is
\* sorted, stored and the selection clamped. render follows (Run and every
\* arm of handleKey that calls updateProcesses call render next).
CallUpdateProcesses ==
    /\ pc = "fetch"
    /\ \E fetch \in CollectAllProcessInfo(user) :
         \E u \in updateProcesses(tui, fetch) :
            /\ tui' = u
            /\ out' = [op |-> IF out.op = "none" THEN "start" ELSE out.op,
                       fetch |-> fetchTag(fetch),
                       rendered |-> FALSE]
    /\ pc' = "render"
    /\ UNCHANGED <<term, oldState, cursorHidden, sigChan, keyChan, cpc,
                   pending, readBuf, capAccess, user, sent, keysBeforeSig,
                   table, disk>>

\* render: the window is adjusted and the screen written; the controller
\* is back in the main loop.
CallRender ==
    /\ pc = "render"
    /\ tui' = render(tui)
    /\ out' = [out EXCEPT !.rendered = TRUE]
    /\ pc' = "loop"
    /\ UNCHANGED <<term, oldState, cursorHidden, sigChan, keyChan, cpc,
                   pending, readBuf, capAccess, user, sent, keysBeforeSig,
                   table, disk>>

----------------------------------------------------------------------------
(* The main loop of Run: one select per iteration.                         *)

\* case <-sigChan
RecvSignal ==
    /\ pc = "loop" /\ tui.running
    /\ sigChan # <<>>
    /\ sigChan' = Tail(sigChan)
    /\ tui' = [tui EXCEPT !.running = FALSE]
    /\ out' = [op |-> "signal", fetch |-> "none", rendered |-> FALSE]
    /\ sent' = <<>>
    /\ keysBeforeSig' = 0
    /\ UNCHANGED <<pc, term, oldState, cursorHidden, keyChan, cpc, pending,
                   readBuf, capAccess, user, table, disk>>

\* The answers of kill(2) to the calls the handling of key makes.
KillAnswers(key) ==
    IF key \in KillKeys
    THEN {<<FALSE, FALSE>>, <<TRUE, FALSE>>, <<TRUE, TRUE>>}
    ELSE {<<FALSE, FALSE>>}

\* case key := <-keyChan: the key is taken and handleKey runs up to its
\* first call that waits (or to its return).
RecvKey ==
    /\ pc = "loop" /\ tui.running
    /\ keyChan # <<>>
    /\ keyChan' = Tail(keyChan)
    /\ keysBeforeSig' = IF keysBeforeSig > 0 THEN keysBeforeSig - 1 ELSE 0
    /\ \E errs \in KillAnswers(Head(keyChan)) :
         \E r \in handleKey(tui, Head(keyChan), errs[1], errs[2]) :
            /\ tui' = r.tui
            /\ sent' = r.sent
            /\ pc' = r.next
    /\ out' = [op |-> "key", fetch |-> "none", rendered |-> FALSE]
    /\ UNCHANGED <<term, oldState, cursorHidden, sigChan, cpc, pending,
                   readBuf, capAccess, user, table, disk>>

\* default: time.Sleep. Successive polls alternate between "idle" and
\* "idle again", so that each one is a step.
Idle ==
    /\ pc = "loop" /\ tui.running
    /\ sigChan = <<>> /\ keyChan = <<>>
    /\ out' = [op |-> IF out.op = "idle" THEN "idle again" ELSE "idle",
               fetch |-> "none", rendered |-> FALSE]
    /\ sent' = <<>>
    /\ UNCHANGED <<pc, tui, term, oldState, cursorHidden, sigChan, keyChan,
                   cpc, pending, readBuf, capAccess, user, keysBeforeSig,
                   table, disk>>

\* The loop condition fails: the screen is cleared, the cursor shown, and
\* the deferred calls run (showCursor, restoreTerminal).
RunExit ==
    /\ pc = "loop" /\ ~tui.running
    /\ pc' = "returned"
    /\ cursorHidden' = FALSE
    /\ term' = restoreTerminal(oldState, term)
    /\ out' = [op |-> "exit", fetch |-> "none", rendered |-> FALSE]
    /\ sent' = <<>>
    /\ UNCHANGED <<tui, oldState, sigChan, keyChan, cpc, pending, readBuf,
                   capAccess, user, keysBeforeSig, table, disk>>

\* Mutant: showCursor is written on the normal return only.
Fault_CursorLeftHidden ==
    /\ \/ pc = "loop" /\ tui.running
       \/ pc \in {"hidden", "notified", "sleep", "fetch", "render"}
    /\ pc' = "panicked"
    /\ term' = restoreTerminal(oldState, term)
    /\ out' = [op |-> "panic", fetch |-> "none", rendered |-> FALSE]
    /\ sent' = <<>>
    /\ UNCHANGED <<tui, oldState, cursorHidden, sigChan, keyChan, cpc,
                   pending, readBuf, capAccess, user, keysBeforeSig, table,
                   disk>>

\* A run-time panic in the controller goroutine, in the first update and
\* render or while it handles an event: the deferred calls run while the
\* stack unwinds.
Fault ==
    /\ \/ pc = "loop" /\ tui.running
       \/ pc \in {"hidden", "notified", "sleep", "fetch", "render"}
    /\ pc' = "panicked"
    /\ cursorHidden' = FALSE
    /\ term' = restoreTerminal(oldState, term)
    /\ out' = [op |-> "panic", fetch |-> "none", rendered |-> FALSE]
    /\ sent' = <<>>
    /\ UNCHANGED <<tui, oldState, sigChan, keyChan, cpc, pending, readBuf,
                   capAccess, user, keysBeforeSig, table, disk>>

\* The operating system delivers SIGINT or SIGTERM to the process once
\* sigChan is registered; signal.Notify drops it when sigChan is full. No
\* signal arrives during the browser's session.
DeliverSignal ==
    /\ pc \in {"notified"} \cup Running
    /\ user # "browser"
    /\ \E sig \in {SIGINT, SIGTERM} :
         sigChan' = IF Len(sigChan) < SigChanCap
                    THEN Append(sigChan, sig) ELSE sigChan
    /\ keysBeforeSig' = IF Len(sigChan) < SigChanCap
                        THEN Len(keyChan) ELSE keysBeforeSig
    /\ UNCHANGED <<pc, tui, term, oldState, cursorHidden, keyChan, cpc,
                   pending, readBuf, capAccess, user, out, sent, table,
                   disk>>

\* SIGINT or SIGTERM is delivered after Run has put the terminal in raw
\* mode and before signal.Notify has registered sigChan: the signal has
\* its default disposition and the process ends at once, without running
\* the deferred calls.
SignalKills ==
    /\ pc \in {"raw", "hidden"}
    /\ user # "browser"
    /\ pc' = "killed"
    /\ UNCHANGED <<tui, term, oldState, cursorHidden, sigChan, keyChan, cpc,
                   pending, readBuf, capAccess, user, out, sent,
                   keysBeforeSig, table, disk>>

----------------------------------------------------------------------------
(* The captureKeys goroutine.                                              *)

\* What the user makes the next read return. The operator and the
\* browser type the next key once the controller has taken the previous
\* one.
Typed ==
    CASE user = "lean_x" -> {ChunkX}
      [] user = "lean_down" -> {<<KeyESC, KeyLBracket, KeyDown>>}
      [] user = "lean_q" -> {<<Key_q>>}
      [] user = "operator" -> IF keyChan = <<>> THEN OperatorChunks ELSE {}
      [] OTHER -> IF keyChan = <<>> THEN BrowserChunks ELSE {}

\* One iteration: the loop condition reads tui.running without
\* synchronisation (it may still see TRUE after the controller cleared
\* it), Read returns a chunk, one byte is published, or the goroutine
\* blocks on the full channel.
CaptureRead ==
    /\ pc \in Running /\ cpc = "read"
    /\ capAccess' = capAccess \cup {[field |-> "running", mode |-> "read"]}
    /\ \E chunk \in Typed, stale \in StaleBytes :
         LET key == decodeKey(bufAfterRead(chunk, stale), Len(chunk))
         IN  IF Len(keyChan) < KeyChanCap
             THEN /\ keyChan' = Append(keyChan, key)
                  /\ UNCHANGED <<cpc, pending>>
                  /\ readBuf' = chunk
             ELSE /\ cpc' = "send"
                  /\ pending' = key
                  /\ readBuf' = chunk
                  /\ UNCHANGED keyChan
    /\ UNCHANGED <<pc, tui, term, oldState, cursorHidden, sigChan, user, out,
                   sent, keysBeforeSig, table, disk>>

\* Mutant: the byte that found the channel full is given up.
CaptureSend_Drops ==
    /\ pc \in Running /\ cpc = "send"
    /\ Len(keyChan) < KeyChanCap
    /\ cpc' = "read"
    /\ pending' = 0
    /\ UNCHANGED <<pc, tui, term, oldState, cursorHidden, sigChan, keyChan,
                   readBuf, capAccess, user, out, sent, keysBeforeSig, table,
                   disk>>

\* The blocked send completes once the controller has taken a key.
CaptureSend ==
    /\ pc \in Running /\ cpc = "send"
    /\ Len(keyChan) < KeyChanCap
    /\ keyChan' = Append(keyChan, pending)
    /\ cpc' = "read"
    /\ pending' = 0
    /\ UNCHANGED <<pc, tui, term, oldState, cursorHidden, sigChan, readBuf,
                   capAccess, user, out, sent, keysBeforeSig, table, disk>>

\* Read returns an error (n = 0): the loop continues.
CaptureReadErr ==
    /\ pc \in Running /\ cpc = "read"
    /\ capAccess' = capAccess \cup {[field |-> "running", mode |-> "read"]}
    /\ UNCHANGED <<pc, tui, term, oldState, cursorHidden, sigChan, keyChan,
                   cpc, pending, readBuf, user, out, sent, keysBeforeSig,
                   table, disk>>

\* The loop condition sees running cleared: the goroutine ends.
CaptureExit ==
    /\ pc \in Running /\ cpc = "read"
    /\ ~tui.running
    /\ capAccess' = capAccess \cup {[field |-> "running", mode |-> "read"]}
    /\ cpc' = "done"
    /\ UNCHANGED <<pc, tui, term, oldState, cursorHidden, sigChan, keyChan,
                   pending, readBuf, user, out, sent, keysBeforeSig, table,
                   disk>>

----------------------------------------------------------------------------

Next ==
    \/ StdinRefused
    \/ RunFail
    \/ RunStart
    \/ HideCursor
    \/ SignalNotify
    \/ GoCaptureKeys
    \/ KillSleep
    \/ CallUpdateProcesses
    \/ CallRender
    \/ RecvSignal
    \/ RecvKey
    \/ Idle
    \/ RunExit
    \/ Fault
    \/ DeliverSignal
    \/ SignalKills
    \/ CaptureRead
    \/ CaptureSend
    \/ CaptureReadErr
    \/ CaptureExit

Spec == Init /\ [][Next]_vars

\* The controller goroutine is always scheduled again: its calls return
\* and its loop polls with a 50 ms sleep.
Controller ==
    \/ HideCursor \/ SignalNotify \/ GoCaptureKeys
    \/ KillSleep \/ CallUpdateProcesses \/ CallRender
    \/ RecvSignal \/ RecvKey \/ Idle \/ RunExit

FairSpec == Spec /\ WF_vars(Controller)

\* select chooses uniformly at random among the ready cases, so a signal
\* waiting on sigChan is not passed over for ever in favour of keys, at
\* however many iterations of the loop both are ready.
\* Termination is checked for the sessions in which signals arrive: those
\* of the operator and of the users leaning on a key, who fill keyChan and
\* block the capture goroutine.
LiveUsers == {"operator", "lean_x", "lean_down", "lean_q"}

LiveInit == Init /\ user \in LiveUsers

LiveSpec ==
    LiveInit /\ [][Next]_vars /\ WF_vars(Controller) /\ SF_vars(RecvSignal)

----------------------------------------------------------------------------
(* The one-shot commands: the process prints a table or lists the disks    *)
(* and exits; the interactive interface is not constructed.                *)

OneShotInit ==
    /\ pc = "oneshot"
    /\ tui = NewInteractiveTUI
    /\ term = {"ICANON", "ECHO", "ISIG", "IEXTEN"}
    /\ oldState = NilState
    /\ cursorHidden = FALSE
    /\ sigChan = <<>>
    /\ keyChan = <<>>
    /\ cpc = "off"
    /\ pending = 0
    /\ readBuf = <<>>
    /\ capAccess = {}
    /\ user = "operator"
    /\ out = NoIO
    /\ sent = <<>>
    /\ keysBeforeSig = 0

\* The provider has collected the list table.input.
TableInit ==
    /\ OneShotInit
    /\ table \in {[NoTable EXCEPT !.input = l] : l \in TableInputs}
    /\ disk = DefaultFilters

\* A caller sorts the list (cpu.GetProcessStats, ram.GetProcessStatsByRAM
\* and the like).
CallSortProcessesByField ==
    /\ table.op = "none"
    /\ \E field \in TableFields, descending \in BOOLEAN :
         table' = [table EXCEPT
                      !.op = "sort", !.field = field,
                      !.descending = descending,
                      !.result = SortProcessesByField(table.input, field,
                                                      descending)]
    /\ UNCHANGED <<tuiVars, disk>>

\* pck.PrintTopProcesses(n): the sorted list, cut by PrintProcessTable.
PrintTopProcesses ==
    /\ table.op = "none"
    /\ \E n \in 0..(MaxTableLen + 1) :
         LET got == GetProcessAssociationSorted(
                        [err |-> FALSE, list |-> table.input])
         IN  table' = [table EXCEPT
                          !.op = "top", !.n = n,
                          !.result = PrintProcessTable(got.list, n)]
    /\ UNCHANGED <<tuiVars, disk>>

\* pck.PrintTopProcesses when the provider fails: nothing is printed.
PrintTopProcessesErr ==
    /\ table.op = "none"
    /\ GetProcessAssociationSorted(NotFetched).err
    /\ table' = [table EXCEPT !.op = "top failed"]
    /\ UNCHANGED <<tuiVars, disk>>

TableNext ==
    \/ CallSortProcessesByField
    \/ PrintTopProcesses
    \/ PrintTopProcessesErr

TableSpec == TableInit /\ [][TableNext]_vars

DiskInit ==
    /\ OneShotInit
    /\ table = NoTable
    /\ disk = DefaultFilters

CallAddIgnoredFsType ==
    /\ \E fstype \in FsTypes : disk' = AddIgnoredFsType(disk, fstype)
    /\ UNCHANGED <<tuiVars, table>>

CallRemoveIgnoredFsType ==
    /\ \E fstype \in FsTypes : disk' = RemoveIgnoredFsType(disk, fstype)
    /\ UNCHANGED <<tuiVars, table>>

CallAddIgnoredPrefix ==
    /\ Len(disk.ignoredPrefixes) < Len(ignoredPrefixes) + MaxAddedPrefixes
    /\ \E prefix \in AddedPrefixes : disk' = AddIgnoredPrefix(disk, prefix)
    /\ UNCHANGED <<tuiVars, table>>

\* A partition is tested (the loops over the partitions in package disk).
CallIsRealDisk ==
    /\ \E mountpoint \in Mountpoints, fstype \in FsTypes :
         disk' = [disk EXCEPT
                     !.asked = TRUE, !.mountpoint = mountpoint,
                     !.fstype = fstype,
                     !.real = IsRealDisk(disk, mountpoint, fstype)]
    /\ UNCHANGED <<tuiVars, table>>

DiskNext ==
    \/ CallAddIgnoredFsType
    \/ CallRemoveIgnoredFsType
    \/ CallAddIgnoredPrefix
    \/ CallIsRealDisk

DiskSpec == DiskInit /\ [][DiskNext]_vars

----------------------------------------------------------------------------
(* Properties.                                                             *)

TypeOK ==
    /\ pc \in {"start", "refused", "failed", "raw", "hidden", "notified",
               "killed", "loop", "sleep", "fetch", "render", "returned",
               "panicked", "oneshot"}
    /\ cpc \in {"off", "read", "send", "done"}
    /\ Len(keyChan) <= KeyChanCap
    /\ Len(sigChan) <= SigChanCap
    /\ tui.sortMode \in {SortByCPU, SortByRAM, SortByPID}

\* s is ordered by the comparator of mode: no element is less than one
\* before it.
Ordered(s, mode) ==
    \A i, j \in 1..Len(s) : i < j => ~less(mode, s[j], s[i])

\* The controller takes a key from keyChan in this step.
KeyTaken == pc = "loop" /\ keyChan # <<>> /\ keyChan' = Tail(keyChan)

\* A read of the capture goroutine returns bytes in this step: a byte is
\* published on keyChan, or the goroutine blocks holding it.
ReadReturns ==
    cpc = "read" /\ (Len(keyChan') > Len(keyChan) \/ cpc' = "send")

\* C1: whenever Run returns after setRawMode succeeded (quit key, signal,
\* or a panic while the controller handles an event), the terminal has the
\* configuration setRawMode captured.
C1_TerminalRestoredAtReturn ==
    pc \in {"returned", "panicked"} =>
        ~oldState.nil /\ term = oldState.lflag

\* Run has ended by a panic on a terminal whose captured configuration
\* had flags that raw mode clears, and these flags are back.
C1_Witness ==
    /\ pc = "panicked"
    /\ term = oldState.lflag
    /\ term \cap RawCleared # {}

\* C2: in every state, selectedIndex is an index of processes when the
\* list is non-empty, and 0 when it is empty.
C2_SelectedIndexInBounds ==
    IF tui.processes = <<>>
    THEN tui.selectedIndex = 0
    ELSE 0 <= tui.selectedIndex /\ tui.selectedIndex < Len(tui.processes)

\* Reached after a key whose refresh replaced a long list by a short one:
\* the selection sits on the last row of the short list.
C2_Witness ==
    /\ out.op = "key" /\ out.fetch = "ok"
    /\ Len(tui.processes) = 2
    /\ tui.selectedIndex = 1
    /\ tui.scrollOffset = 1

\* C3: scrollOffset is never negative, and after every render, hence
\* whenever the controller waits for its next event, the selected row is
\* inside the window of maxLines rows that starts at scrollOffset.
C3_SelectionVisible ==
    /\ tui.scrollOffset >= 0
    /\ (pc = "loop" \/ out.rendered) =>
          /\ tui.scrollOffset <= tui.selectedIndex
          /\ tui.selectedIndex <= tui.scrollOffset + maxLines - 1

\* The window has slid down: the selection is on its last row.
C3_Witness ==
    /\ pc = "loop" /\ out.rendered
    /\ tui.scrollOffset > 0
    /\ tui.selectedIndex = tui.scrollOffset + maxLines - 1

\* C4: whenever the controller waits for its next event, processes is
\* ordered according to sortMode.
C4_OrderedPerSortMode ==
    pc = "loop" => Ordered(tui.processes, tui.sortMode)

\* C5: handling a kill key with a row selected sends one SIGTERM to the
\* pid of the selected row, then one SIGKILL to the same pid exactly when
\* the SIGTERM failed, and the session keeps running (the controller goes
\* on to the pause before the refresh); with an empty list nothing is
\* sent; the rest of the handling sends nothing more.
C5_KillEscalatesOnce ==
    [][/\ (KeyTaken /\ Head(keyChan) \in KillKeys) =>
          IF tui.processes = <<>>
          THEN sent' = <<>>
          ELSE LET pid == tui.processes[tui.selectedIndex + 1].PID
               IN  /\ Len(sent') \in {1, 2}
                   /\ sent'[1].pid = pid /\ sent'[1].sig = SIGTERM
                   /\ (Len(sent') = 2) <=> sent'[1].err
                   /\ Len(sent') = 2 =>
                         sent'[2].pid = pid /\ sent'[2].sig = SIGKILL
                   /\ tui'.running /\ pc' = "sleep"
       /\ pc \in {"sleep", "fetch", "render"} =>
             sent' \in {sent, <<>>} /\ (tui'.running = tui.running)]_vars

\* Both requests failed and the session is still running.
C5_Witness ==
    /\ Len(sent) = 2
    /\ sent[1].err /\ sent[2].err
    /\ pc = "loop" /\ tui.running

\* C6: only the taking of a kill key sends termination requests: the
\* taking of any other key sends none, and every other step (the first
\* update, the fetch and the render of a handler, a signal, a poll, the
\* exit, the capture goroutine, the environment) adds none to those of
\* the handling in progress.
C6_RequestsOnlyOnKillKey ==
    [][/\ (KeyTaken /\ Head(keyChan) \notin KillKeys) => sent' = <<>>
       /\ ~KeyTaken =>
             \/ sent' = sent
             \/ /\ sent' = <<>>
                /\ out'.op \in {"signal", "idle", "idle again", "exit",
                                "panic"}]_vars

\* A process was asked to terminate, the request succeeded, and the
\* process is still in the snapshot fetched and rendered after it: no
\* second request followed.
C6_Witness ==
    /\ Len(sent) = 1 /\ ~sent[1].err
    /\ out.fetch = "ok" /\ out.rendered
    /\ \E i \in 1..Len(tui.processes) : tui.processes[i].PID = sent[1].pid

\* C7: while the session runs and no key is waiting, a refresh (a fetch of
\* the snapshot) occurs again and again.
C7_PeriodicRefresh ==
    []<>(pc # "loop" \/ ~tui.running \/ keyChan # <<>> \/ out.fetch # "none")

\* C8: an updateProcesses whose snapshot fetch fails, and the render that
\* follows it, leave processes and selectedIndex as they were and running
\* TRUE; so does the taking of the refresh, sort or kill key that leads
\* to it.
C8_FailedFetchKeepsList ==
    [][/\ out'.fetch = "err" =>
             /\ tui'.processes = tui.processes
             /\ tui'.selectedIndex = tui.selectedIndex
             /\ tui'.running
       /\ (KeyTaken /\ pc' \in {"sleep", "fetch"}) =>
             /\ tui'.processes = tui.processes
             /\ tui'.selectedIndex = tui.selectedIndex
             /\ tui'.running]_vars

\* The refresh after a kill failed and the list is still shown.
C8_Witness ==
    /\ out.fetch = "err"
    /\ sent # <<>>
    /\ tui.processes # <<>>
    /\ tui.selectedIndex > 0
    /\ pc = "loop" /\ tui.running

\* The byte the claim expects for a read: UP, DOWN, REFRESH, QUIT for the
\* four sequences it names.
ExpectedKey(chunk) ==
    CASE chunk = <<KeyESC, KeyLBracket, KeyUp>> -> {KeyUp}
      [] chunk = <<KeyESC, KeyLBracket, KeyDown>> -> {KeyDown}
      [] chunk = <<KeyESC, KeyLBracket, Key_1, Key_5, KeyTilde>> -> RefreshKeys
      [] chunk = <<KeyESC>> -> QuitKeys
      [] OTHER -> 0..255

\* C9: every read of at least one byte publishes exactly one byte (on
\* keyChan, or held by the blocked send), and it is UP for ESC [ A, DOWN
\* for ESC [ B, a refresh key for ESC [ 1 5 ~ and a quit key for a lone
\* ESC.
C9_OneEventPerRead ==
    [][ReadReturns =>
          \/ /\ cpc' = "read"
             /\ Len(keyChan') = Len(keyChan) + 1
             /\ SubSeq(keyChan', 1, Len(keyChan)) = keyChan
             /\ keyChan'[Len(keyChan')] \in ExpectedKey(readBuf')
          \/ /\ cpc' = "send"
             /\ keyChan' = keyChan
             /\ pending' \in ExpectedKey(readBuf')]_vars

\* ESC [ 1 5 ~ was read and the one byte published for it is still the
\* only one on keyChan.
C9_Witness ==
    /\ readBuf = <<KeyESC, KeyLBracket, Key_1, Key_5, KeyTilde>>
    /\ keyChan = <<Key_r>>

\* C10: the capture goroutine accesses no field of the InteractiveTUI
\* struct.
C10_CaptureTouchesNoField == capAccess = {}

\* C11: the controller handles events in arrival order: it takes a signal
\* only when no key published before that signal is still on keyChan, it
\* takes a key while a signal is pending only if the key was published
\* before the signal, and keyChan is a queue (published at the tail, taken
\* from the head).
C11_ArrivalOrder ==
    [][/\ RecvSignal => keysBeforeSig = 0
       /\ (KeyTaken /\ sigChan # <<>>) => keysBeforeSig > 0
       /\ keyChan' # keyChan =>
             \/ keyChan # <<>> /\ keyChan' = Tail(keyChan)
             \/ \E k \in 0..255 : keyChan' = Append(keyChan, k)]_vars

\* C12: once a signal has been delivered to the process (it waits on
\* sigChan, or it arrived before sigChan was registered) or running is
\* FALSE (a quit key or a signal was handled), Run ends with the cursor
\* shown and the terminal configuration restored, whatever the capture
\* goroutine is doing; Run ends by returning, or by a panic of the
\* controller when one strikes first.
C12_StopLeadsToReturn ==
    (\/ pc = "killed"
     \/ pc \in {"notified"} \cup Running /\ (sigChan # <<>> \/ ~tui.running))
        ~> (/\ pc \in {"returned", "panicked"}
            /\ ~cursorHidden
            /\ term = oldState.lflag)

\* C13: a step by which showInteractiveTUI refuses standard input or
\* setRawMode fails leaves the terminal configuration as it was, and then
\* nothing has been fetched or rendered, the cursor has not been hidden and
\* the capture goroutine has not been started.
C13_NotEnteredOnFailure ==
    [][pc' \in {"refused", "failed"} =>
          /\ term' = term
          /\ ~cursorHidden'
          /\ cpc' = "off"
          /\ out' = NoIO
          /\ oldState' = NilState
          /\ keyChan' = <<>>]_vars

\* setRawMode has failed on a terminal in canonical mode with signal
\* generation: the flags are still set and no goroutine runs.
C13_Witness ==
    /\ pc = "failed"
    /\ {"ICANON", "ISIG"} \subseteq term
    /\ cpc = "off" /\ ~cursorHidden /\ out = NoIO

\* C14: setRawMode leaves the terminal with the configuration it found
\* less canonical mode, echo and signal generation, and nothing else
\* changed; restoreTerminal on the handle it returned gives back the
\* configuration setRawMode found, and a second restoreTerminal changes
\* nothing.
C14_RawModeRoundTrip ==
    [][/\ RunStart =>
             /\ term' = term \ {"ICANON", "ECHO", "ISIG"}
             /\ restoreTerminal(oldState', term') = term
             /\ restoreTerminal(oldState',
                    restoreTerminal(oldState', term')) = term
       /\ (RunExit \/ Fault) =>
             /\ term = oldState.lflag \ {"ICANON", "ECHO", "ISIG"}
             /\ term' = oldState.lflag
             /\ restoreTerminal(oldState', term') = term']_vars

\* Run has returned on a terminal that had all four flags set: all four
\* are set again.
C14_Witness ==
    /\ pc = "returned"
    /\ term = {"ICANON", "ECHO", "ISIG", "IEXTEN"}
    /\ term = oldState.lflag

\* C15: the cursor is hidden only once raw mode is acquired and Run has
\* not ended, and it is visible whenever Run has ended: by its return
\* after a quit key or a signal, by a panic of the controller, or by the
\* failure to acquire raw mode.
C15_CursorShownAtReturn ==
    /\ cursorHidden =>
          (pc \in {"hidden", "notified", "killed"} \cup Running /\ ~oldState.nil)
    /\ pc \in {"returned", "panicked", "failed", "refused"} => ~cursorHidden

\* A panic struck the controller while a key was waiting: the cursor is
\* visible.
C15_Witness ==
    /\ pc = "panicked" /\ out.op = "panic"
    /\ keyChan # <<>>
    /\ ~oldState.nil /\ ~cursorHidden

\* C16: an updateProcesses whose snapshot fetch succeeds with n processes
\* leaves selectedIndex at the smaller of its previous value and n - 1
\* when n > 0, and at 0 when n = 0, whatever pid was selected before; the
\* render that follows keeps the selection and makes its row visible.
C16_RefreshClampsByIndex ==
    [][/\ (pc = "fetch" /\ pc' = "render" /\ out'.fetch = "ok") =>
             LET n == Len(tui'.processes)
                 prev == tui.selectedIndex
             IN  /\ tui'.selectedIndex =
                       IF n = 0 THEN 0
                       ELSE IF prev < n - 1 THEN prev ELSE n - 1
                 /\ pc' = "render"
       /\ (pc = "render" /\ pc' = "loop" /\ out.fetch = "ok") =>
             /\ tui'.selectedIndex = tui.selectedIndex
             /\ tui'.scrollOffset <= tui'.selectedIndex
             /\ tui'.selectedIndex < tui'.scrollOffset + maxLines]_vars

\* A sort key was pressed far down a long list and its fetch returned two
\* processes: the selection is on the last of the two and the window
\* starts there.
C16_Witness ==
    /\ out.op = "key" /\ out.fetch = "ok"
    /\ tui.sortMode = SortByPID
    /\ Len(tui.processes) = 2
    /\ tui.selectedIndex = 1
    /\ tui.scrollOffset = 1

\* C17: handling UP lowers selectedIndex by one unless it is 0, handling
\* DOWN raises it by one unless it is on the last row or the list is
\* empty; the handler goes on to render, fetches nothing, sends nothing
\* and leaves processes, sortMode and running as they were.
C17_ArrowsMoveByOne ==
    [][(KeyTaken /\ Head(keyChan) \in {KeyUp, KeyDown}) =>
          LET sel == tui.selectedIndex
              last == Len(tui.processes) - 1
          IN  /\ tui'.selectedIndex =
                    IF Head(keyChan) = KeyUp
                    THEN (IF sel - 1 > 0 THEN sel - 1 ELSE 0)
                    ELSE (IF tui.processes = <<>> THEN sel
                          ELSE IF sel + 1 < last THEN sel + 1 ELSE last)
              /\ pc' = "render" /\ out'.fetch = "none"
              /\ sent' = <<>>
              /\ tui'.processes = tui.processes
              /\ tui'.sortMode = tui.sortMode
              /\ tui'.running = tui.running]_vars

\* The DOWN arrow was read and handled and the selection is on the last
\* row of a long list, at the bottom of the window.
C17_Witness ==
    /\ readBuf = <<KeyESC, KeyLBracket, KeyDown>>
    /\ keyChan = <<>> /\ cpc = "read"
    /\ out.op = "key" /\ out.rendered /\ out.fetch = "none"
    /\ Len(tui.processes) = MaxProcs
    /\ tui.selectedIndex = MaxProcs - 1
    /\ tui.scrollOffset = MaxProcs - maxLines

\* C18: handling a quit key or a signal clears running and changes no
\* other field of the struct, without fetching, rendering or sending; once
\* running is FALSE the struct never changes again (running stays FALSE),
\* no key and no signal is taken from the channels, and nothing is
\* fetched, rendered or sent.
C18_QuitOnlyClearsRunning ==
    [][/\ ((KeyTaken /\ Head(keyChan) \in QuitKeys) \/ RecvSignal) =>
             /\ tui' = [tui EXCEPT !.running = FALSE]
             /\ out'.fetch = "none" /\ ~out'.rendered
             /\ sent' = <<>>
             /\ pc' = "loop"
       /\ ~tui.running =>
             /\ tui' = tui
             /\ Len(keyChan') >= Len(keyChan)
             /\ Len(sigChan') >= Len(sigChan)
             /\ out'.fetch = "none" /\ ~out'.rendered
             /\ sent' = <<>>]_vars

\* Run has returned after a quit key pressed far down a long list; the
\* view is as it was and a second quit key is left unhandled on keyChan.
C18_Witness ==
    /\ pc = "returned" /\ ~tui.running
    /\ tui.selectedIndex > 0 /\ tui.scrollOffset > 0
    /\ keyChan # <<>> /\ Head(keyChan) \in QuitKeys
    /\ sigChan = <<>>

\* The bytes handleKey has a case for.
CommandKeys ==
    QuitKeys \cup {KeyUp, KeyDown} \cup RefreshKeys \cup SortKeys \cup KillKeys

\* C19: handling a key that is no quit, navigation, refresh, sort or kill
\* key leaves the struct as it was, renders nothing, fetches nothing and
\* sends nothing.
C19_OtherKeysChangeNothing ==
    [][(KeyTaken /\ Head(keyChan) \notin CommandKeys) =>
          /\ tui' = tui
          /\ pc' = "loop"
          /\ ~out'.rendered /\ out'.fetch = "none"
          /\ sent' = <<>>]_vars

\* The key x was read and handled over a non-empty list and the session
\* goes on.
C19_Witness ==
    /\ readBuf = ChunkX /\ keyChan = <<>> /\ cpc = "read"
    /\ out.op = "key" /\ ~out.rendered /\ out.fetch = "none"
    /\ tui.processes # <<>> /\ tui.selectedIndex > 0
    /\ pc = "loop" /\ tui.running

\* C20: keyChan never holds more than 10 bytes; a read that finds it full
\* leaves the capture goroutine blocked holding the byte it decoded; while
\* blocked it keeps that byte and publishes nothing else, and it leaves
\* the blocked state only by appending that byte to keyChan, which then
\* has room.
C20_FullQueueBlocksCapture ==
    [][/\ Len(keyChan') <= 10
       /\ (ReadReturns /\ Len(keyChan) = 10) =>
             /\ cpc' = "send" /\ keyChan' = keyChan
             /\ pending' = decodeKey(bufAfterRead(readBuf', 0), Len(readBuf'))
       /\ cpc = "send" =>
             \/ /\ cpc' = "send" /\ pending' = pending
                /\ \/ keyChan' = keyChan
                   \/ keyChan # <<>> /\ keyChan' = Tail(keyChan)
             \/ /\ cpc' = "read" /\ Len(keyChan) < 10
                /\ keyChan' = Append(keyChan, pending)]_vars

\* The capture goroutine is blocked holding DOWN while ten keys wait and
\* the controller is running.
C20_Witness ==
    /\ cpc = "send" /\ pending = KeyDown
    /\ Len(keyChan) = 10
    /\ pc = "loop" /\ tui.running

\* The stable ordering of each snapshot of the model under each sort
\* mode: equal elements keep the order of the snapshot.
StableOrder ==
    [mode \in {SortByCPU, SortByRAM, SortByPID} |->
        [l \in UNION {Snapshots(u) : u \in Users} |-> insertionSort(l, mode)]]

\* C21: after a step whose fetch succeeded, processes is the fetched
\* snapshot in the stable ordering of sortMode: processes with equal sort
\* keys are in the order the snapshot had them.
C21_SortIsStable ==
    out.fetch = "ok" =>
        \E l \in Snapshots(user) : tui.processes = StableOrder[tui.sortMode][l]

\* C22: the top-N table (N >= 1) shows the first min(N, number of
\* processes) rows of the snapshot ordered by descending CPU% with
\* processes of equal CPU% in snapshot order.
C22_TopNStableByCPU ==
    (table.op = "top" /\ table.n >= 1) =>
        LET len == Len(table.input)
            shown == IF table.n < len THEN table.n ELSE len
        IN  table.result =
                SubSeq(insertionSort(table.input, SortByCPU), 1, shown)

\* The controller takes the key published for the latest read.
LatestReadTaken == KeyTaken /\ Len(keyChan) = 1 /\ cpc = "read"

\* C23: when the key handled comes from a read of RIGHT (ESC [ C) or LEFT
\* (ESC [ D), the struct is left as it was, nothing is fetched or sorted
\* and no termination request is sent; when it comes from a read of the
\* letter A or B, the selection does not move.
C23_ArrowsAliasNoLetters ==
    [][/\ (LatestReadTaken /\ readBuf \in {<<KeyESC, KeyLBracket, KeyRight>>,
                                           <<KeyESC, KeyLBracket, KeyLeft>>})
             => /\ tui' = tui
                /\ pc' = "loop"
                /\ sent' = <<>>
       /\ (LatestReadTaken /\ readBuf \in {<<65>>, <<66>>})
             => tui'.selectedIndex = tui.selectedIndex]_vars

\* C24: a read that does not start an escape sequence publishes every one
\* of its bytes, in order, as a key of its own (keyChan having room for
\* them).
C24_NoKeypressLost ==
    [][(/\ ReadReturns
        /\ readBuf'[1] # KeyESC
        /\ Len(keyChan) + Len(readBuf') <= KeyChanCap)
          => keyChan' = keyChan \o readBuf']_vars

\* C25: in a state just rendered, and for the selection on any row of the
\* list, a render changes none of processes, selectedIndex, sortMode and
\* running, and a second render right after it changes no field at all
\* (the rows printed being those of the struct, it prints the same rows).
C25_RenderIdempotent ==
    out.rendered =>
        \A k \in {0} \cup (0..(Len(tui.processes) - 1)) :
            LET t == [tui EXCEPT !.selectedIndex = k]
                r == render(t)
            IN  /\ r.processes = t.processes
                /\ r.selectedIndex = t.selectedIndex
                /\ r.sortMode = t.sortMode
                /\ r.running = t.running
                /\ render(r) = r

\* A long list was rendered with the window scrolled down and the
\* selection strictly inside it.
C25_Witness ==
    /\ out.rendered /\ out.op = "key"
    /\ Len(tui.processes) = MaxProcs
    /\ tui.scrollOffset > 0
    /\ tui.selectedIndex > tui.scrollOffset
    /\ tui.selectedIndex < tui.scrollOffset + maxLines - 1
    /\ render(tui) = tui

\* C26: a render leaves scrollOffset at selectedIndex when the
\* selection is above the window, at selectedIndex - 19 when it is at or
\* beyond scrollOffset + 20, and unchanged otherwise, however few rows
\* are left from scrollOffset on.
C26_WindowMovesByDeficit ==
    [][(pc = "render" /\ pc' = "loop") =>
          LET sel == tui'.selectedIndex
              off == tui.scrollOffset
          IN  tui'.scrollOffset =
                  IF sel < off THEN sel
                  ELSE IF sel >= off + 20 THEN sel - 19
                  ELSE off]_vars

\* A sort by RAM far down a long list fetched two processes: the window
\* starts on the last of them and one row is left from scrollOffset on.
C26_Witness ==
    /\ out.rendered /\ out.fetch = "ok"
    /\ tui.sortMode = SortByRAM
    /\ Len(tui.processes) = 2
    /\ tui.scrollOffset = 1
    /\ tui.selectedIndex = 1

\* C27: after every render the table region is 20 lines: the rows of the
\* slice indices scrollOffset, scrollOffset + 1, ... that exist, at most
\* 20 of them, each index within the list, then empty lines up to 20.
C27_TableRegionIsTwentyLines ==
    out.rendered =>
        LET rows == processRows(tui)
        IN  /\ Len(rows) <= 20
            /\ Len(rows) + blankLines(tui) = 20
            /\ \A i \in 1..Len(rows) :
                  /\ rows[i].index = tui.scrollOffset + i - 1
                  /\ 0 <= rows[i].index
                  /\ rows[i].index < Len(tui.processes)
            /\ Len(rows) < 20 =>
                  tui.scrollOffset + Len(rows) = Len(tui.processes)

\* A refresh shrank a long list to two rows while the window was scrolled
\* down: one row and nineteen empty lines are printed.
C27_Witness ==
    /\ out.rendered /\ out.fetch = "ok" /\ out.op = "key"
    /\ Len(tui.processes) = 2
    /\ tui.scrollOffset = 1
    /\ Len(processRows(tui)) = 1
    /\ blankLines(tui) = 19

\* C28: when the key handled comes from a read of Ctrl+C, running is
\* FALSE after the step.
C28_CtrlCEndsSession ==
    [][(LatestReadTaken /\ readBuf = ChunkCtrlC) => ~tui'.running]_vars

\* The number of occurrences of r in s.
CountOf(s, r) == Cardinality({i \in 1..Len(s) : s[i] = r})

\* a's value of the field is at most b's.
FieldLeq(field, a, b) ==
    CASE field = "cpu" -> a.CPUPercentage <= b.CPUPercentage
      [] field = "ram" -> a.RAMPercentage <= b.RAMPercentage
      [] field = "pid" -> a.PID <= b.PID
      [] field = "name" -> ~strLess(b.Name, a.Name)

\* C29: SortProcessesByField returns a permutation of its input; for the
\* fields cpu, ram, pid and name it is non-increasing in the field when
\* descending and non-decreasing otherwise; for another field name it is
\* the input unchanged.
C29_SortByFieldOrdersPermutation ==
    table.op = "sort" =>
        /\ Len(table.result) = Len(table.input)
        /\ \A r \in TableProcs :
              CountOf(table.result, r) = CountOf(table.input, r)
        /\ IF table.field \in {"cpu", "ram", "pid", "name"}
           THEN \A i \in 1..(Len(table.result) - 1) :
                   IF table.descending
                   THEN FieldLeq(table.field, table.result[i + 1],
                                 table.result[i])
                   ELSE FieldLeq(table.field, table.result[i],
                                 table.result[i + 1])
           ELSE table.result = table.input

\* A list of the greatest length with two processes of the same name was
\* sorted by name, descending, and came out in another order.
C29_Witness ==
    /\ table.op = "sort"
    /\ table.field = "name" /\ table.descending
    /\ Len(table.input) = MaxTableLen
    /\ table.result # table.input
    /\ \E i, j \in 1..Len(table.result) :
          i # j /\ table.result[i].Name = table.result[j].Name

\* The mountpoint is the path prefix or lies below it.
AtOrBelow(mountpoint, prefix) ==
    \/ mountpoint = prefix
    \/ HasPrefix(mountpoint, prefix \o <<"/">>)

\* C30: IsRealDisk answers FALSE exactly when the fstype is in the current
\* set of ignored types or the mountpoint is an ignored path or lies
\* below one.
C30_RealDiskUnlessIgnored ==
    disk.asked =>
        (disk.real <=>
            ~(\/ disk.fstype \in disk.ignoredFsTypes
              \/ \E i \in 1..Len(disk.ignoredPrefixes) :
                    AtOrBelow(disk.mountpoint, disk.ignoredPrefixes[i])))

====
